---- MODULE Spec2Model ----
(***************************************************************************)
(* Model of the lise retrieval core: the recursive text splitter           *)
(* (lise/rag.py, recursive_character_splitter) and the per-property         *)
(* RAGIndex (build_and_save_index, _load_index, retrieve) over the shared   *)
(* SQLite chunks table and the per-property FAISS index files.              *)
(*                                                                         *)
(* A text is a sequence of one-character strings.                          *)
(***************************************************************************)
EXTENDS Integers, Sequences, FiniteSets, TLC

\* ------------------------------------------------------------------ bounds
MaxLen == 5          \* longest text given to the splitter
MaxChunk == 3        \* largest chunk_size given to the splitter
MaxOverlap == 2      \* largest chunk_overlap given to the splitter
RecursionLimit == 8  \* frames before the interpreter raises RecursionError

MaxBuilds == 2       \* builds started in one behaviour
MaxDocs == 2         \* documents handed to one build
MaxTopK == 2         \* largest top_k asked of retrieve
MaxItems == 2        \* longest JSON array a chunks document holds

\* lise/config.py
CHUNK_SIZE == 500
CHUNK_OVERLAP == 100

Alphabet == {"a", "b", " ", "\n", "."}

SeqsUpTo(S, n) == UNION {[1..k -> S] : k \in 0..n}

\* --------------------------------------------------------- the splitter
\* separators = ["\n\n", "\n", ". ", " ", ""]
DefaultSeparators == << <<"\n", "\n">>, <<"\n">>, <<".", " ">>, <<" ">>, <<>> >>

\* sep occurs in text at position i
OccursAt(sep, text, i) ==
  /\ i + Len(sep) - 1 <= Len(text)
  /\ \A j \in 1..Len(sep) : text[i + j - 1] = sep[j]

\* `sep in text` for a non-empty sep
StrContains(sep, text) == \E i \in 1..Len(text) : OccursAt(sep, text, i)

\* text.split(sep) for a non-empty sep: leftmost non-overlapping occurrences
RECURSIVE StrSplit(_, _)
StrSplit(text, sep) ==
  IF ~StrContains(sep, text) THEN <<text>>
  ELSE LET i == CHOOSE k \in 1..Len(text) :
                   /\ OccursAt(sep, text, k)
                   /\ \A j \in 1..(k - 1) : ~OccursAt(sep, text, j)
       IN <<SubSeq(text, 1, i - 1)>>
            \o StrSplit(SubSeq(text, i + Len(sep), Len(text)), sep)

\* the for-loop that picks separator_to_use: the first separator that is ""
\* or occurs in the text; "" when the list is exhausted
RECURSIVE SeparatorToUse(_, _)
SeparatorToUse(text, separators) ==
  IF separators = <<>> THEN <<>>
  ELSE IF Head(separators) = <<>> THEN <<>>
  ELSE IF StrContains(Head(separators), text) THEN Head(separators)
  ELSE SeparatorToUse(text, Tail(separators))

\* separators[1:]
RestSeparators(separators) ==
  IF separators = <<>> THEN <<>> ELSE Tail(separators)

\* chunks[i-1][-chunk_overlap:]
LastChars(chunk, n) ==
  IF n >= Len(chunk) THEN chunk ELSE SubSeq(chunk, Len(chunk) - n + 1, Len(chunk))

\* the overlap pass at the end of every call
ApplyOverlap(chunks, chunk_overlap) ==
  IF chunk_overlap > 0 /\ Len(chunks) > 1
  THEN [i \in 1..Len(chunks) |->
          IF i = 1 THEN chunks[1]
          ELSE LastChars(chunks[i - 1], chunk_overlap) \o chunks[i]]
  ELSE chunks

\* a text kept whole as the one chunk of the result
EmptyTextKept == << <<>> >>

\* if not text: return []
EmptyTextResult == <<>>

\* a call that ended in RecursionError
SplitRaised == [raised |-> TRUE, chunks |-> <<>>]

RECURSIVE recursive_character_splitter(_, _, _, _, _)
RECURSIVE PackSplits(_, _, _, _, _, _, _, _)

\* the loop over splits; st is [chunks, current, raised]
PackSplits(splits, i, st, sep, chunk_size, chunk_overlap, separators, depth) ==
  IF i > Len(splits) \/ st.raised THEN st
  ELSE
    LET part == splits[i] IN
    IF part = <<>>
    THEN PackSplits(splits, i + 1, st, sep, chunk_size, chunk_overlap, separators, depth)
    ELSE
      LET part_to_add == IF st.current # <<>> THEN sep \o part ELSE part IN
      IF Len(st.current) + Len(part_to_add) <= chunk_size
      THEN PackSplits(splits, i + 1, [st EXCEPT !.current = @ \o part_to_add],
                      sep, chunk_size, chunk_overlap, separators, depth)
      ELSE
        LET closed == IF st.current # <<>> THEN Append(st.chunks, st.current)
                      ELSE st.chunks
        IN
        IF Len(part_to_add) > chunk_size
        THEN LET r == recursive_character_splitter(part_to_add, chunk_size,
                        chunk_overlap, RestSeparators(separators), depth + 1)
             IN IF r.raised THEN [st EXCEPT !.raised = TRUE]
                ELSE PackSplits(splits, i + 1, [st EXCEPT !.chunks = closed \o r.chunks],
                                sep, chunk_size, chunk_overlap, separators, depth)
        ELSE PackSplits(splits, i + 1,
                        [st EXCEPT !.chunks = closed, !.current = part_to_add],
                        sep, chunk_size, chunk_overlap, separators, depth)

\* depth counts the frames of the recursion; beyond RecursionLimit the
\* interpreter raises RecursionError
recursive_character_splitter(text, chunk_size, chunk_overlap, separators, depth) ==
  IF depth > RecursionLimit THEN SplitRaised
  ELSE IF text = <<>> THEN [raised |-> FALSE, chunks |-> EmptyTextResult]
  ELSE
    LET sep == SeparatorToUse(text, separators)
        splits == IF sep # <<>> THEN StrSplit(text, sep) ELSE <<text>>
        st == PackSplits(splits, 1,
                 [chunks |-> <<>>, current |-> <<>>, raised |-> FALSE],
                 sep, chunk_size, chunk_overlap, separators, depth)
    IN IF st.raised THEN SplitRaised
       ELSE LET chunks == IF st.current # <<>> THEN Append(st.chunks, st.current)
                          ELSE st.chunks
            IN [raised |-> FALSE, chunks |-> ApplyOverlap(chunks, chunk_overlap)]

\* ------------------------------------------- the database and the embedder
Properties == {1, 2}

\* the datasources table: datasource id -> property_id
datasource_property == (1 :> 1) @@ (2 :> 2)

DatasourcesOf(p) == {d \in DOMAIN datasource_property : datasource_property[d] = p}

\* the RAGIndex objects of the process and the property each was made for
Instances == {"r1", "r2", "r3"}
property_id == ("r1" :> 1) @@ ("r2" :> 1) @@ ("r3" :> 2)

Callers == {"c1", "c2"}

\* the texts a property's documents are drawn from
Corpus(p) == IF p = 1 THEN {<<"a">>, <<"b">>, <<" ">>} ELSE {<<"c">>}

\* documents: list[tuple[int, str]]
DocumentLists(p) ==
  SeqsUpTo({<<d, t>> : d \in DatasourcesOf(p), t \in Corpus(p)}, MaxDocs)

Queries == {<<"b">>}

\* self.model.encode: one number per text
CharCode(ch) ==
  CASE ch = "a" -> 1 [] ch = "b" -> 4 [] ch = "c" -> 9 [] OTHER -> 0

RECURSIVE Embed(_)
Embed(text) ==
  IF text = <<>> THEN 0 ELSE CharCode(Head(text)) + 2 * Embed(Tail(text))

\* IndexFlatL2's squared distance
Dist(x, y) == (x - y) * (x - y)

\* self.index.search(q_emb, top_k): ordinals by rising distance, the lower
\* ordinal first among equals, and -1 for every place beyond the vectors held
RECURSIVE SearchFrom(_, _, _, _)
SearchFrom(vecs, q, k, taken) ==
  IF k = 0 THEN <<>>
  ELSE LET cand == (0..(Len(vecs) - 1)) \ taken IN
       IF cand = {} THEN <<-1>> \o SearchFrom(vecs, q, k - 1, taken)
       ELSE LET j == CHOOSE x \in cand : \A o \in cand :
                        \/ Dist(vecs[x + 1], q) < Dist(vecs[o + 1], q)
                        \/ Dist(vecs[x + 1], q) = Dist(vecs[o + 1], q) /\ x <= o
            IN <<j>> \o SearchFrom(vecs, q, k - 1, taken \cup {j})

Search(vecs, q, k) == SearchFrom(vecs, q, k, {})

\* rows of the chunks table: [id, datasource_id, chunk_text]
TenantRows(table, p) == {row \in table : datasource_property[row.datasource_id] = p}

\* a DELETE that removes no row
KeepChunks(table, p) == table

\* DELETE FROM chunks WHERE datasource_id IN (SELECT id FROM datasources
\* WHERE property_id = ?)
DeleteChunks(table, p) == table \ TenantRows(table, p)

SetMax(S) == CHOOSE x \in S : \A y \in S : y <= x
SetMin(S) == CHOOSE x \in S : \A y \in S : x <= y

\* id INTEGER PRIMARY KEY: the next rowid is one more than the largest
NextRowid(table) ==
  IF table = {} THEN 1 ELSE SetMax({row.id : row \in table}) + 1

\* executemany("INSERT INTO chunks (datasource_id, chunk_text) VALUES (?, ?)")
RECURSIVE InsertChunks(_, _)
InsertChunks(table, data) ==
  IF data = <<>> THEN table
  ELSE InsertChunks(
         table \cup {[id |-> NextRowid(table),
                      datasource_id |-> Head(data)[1],
                      chunk_text |-> Head(data)[2]]},
         Tail(data))

\* step 2 of the build: every document through the splitter, flattened to
\* (datasource_id, chunk_text) pairs in order
RECURSIVE ChunkDocuments(_)
ChunkDocuments(documents) ==
  IF documents = <<>> THEN [raised |-> FALSE, chunks |-> <<>>]
  ELSE LET d == Head(documents)
           r == recursive_character_splitter(d[2], CHUNK_SIZE, CHUNK_OVERLAP,
                                             DefaultSeparators, 1)
           rest == ChunkDocuments(Tail(documents))
       IN IF r.raised \/ rest.raised THEN [raised |-> TRUE, chunks |-> <<>>]
          ELSE [raised |-> FALSE,
                chunks |-> [i \in 1..Len(r.chunks) |-> <<d[1], r.chunks[i]>>]
                             \o rest.chunks]

\* self.model.encode(all_chunks)
Embeddings(all_chunks) == [i \in 1..Len(all_chunks) |-> Embed(all_chunks[i][2])]

\* SELECT MIN(rowid) FROM chunks WHERE datasource_id IN (...): 0 stands for NULL
MinRowid(table, p) ==
  IF TenantRows(table, p) = {} THEN 0
  ELSE SetMin({row.id : row \in TenantRows(table, p)})

\* db_chunk_ids = [base_rowid + idx for idx in faiss_indices]
DbChunkIds(base_rowid, faiss_indices) ==
  [i \in 1..Len(faiss_indices) |-> base_rowid + faiss_indices[i]]

SeqRange(s) == {s[i] : i \in 1..Len(s)}

\* SELECT chunk_text FROM chunks WHERE rowid IN (...): the rows matched
FetchRows(table, db_chunk_ids) == {row \in table : row.id \in SeqRange(db_chunk_ids)}

\* a SELECT that also names the rowid the dictionary is keyed by
SelectedColumnsWithRowid == {"rowid", "chunk_text"}

\* the columns the SELECT of retrieve names
SelectedColumns == {"chunk_text"}

\* results_dict = {row['rowid']: row['chunk_text'] ...} and the ordered list
\* built from it: row['rowid'] raises IndexError for a row without that
\* column, which the except clause turns into []
OrderedChunks(rows, db_chunk_ids) ==
  IF rows # {} /\ "rowid" \notin SelectedColumns THEN <<>>
  ELSE LET found == SelectSeq(db_chunk_ids,
                              LAMBDA id : \E row \in rows : row.id = id)
       IN [i \in 1..Len(found) |->
             (CHOOSE row \in rows : row.id = found[i]).chunk_text]

\* chunks[i] of a Python list: a negative i counts from the end
ListItem(list, i) == IF i >= 0 THEN list[i + 1] ELSE list[Len(list) + i + 1]

\* InMemoryRAG.retrieve (api.py): the index is built from the chunk list in
\* __init__, and the result is [self.chunks[i] for i in I[0]]
InMemoryRAG_retrieve(chunk_list, query, top_k) ==
  LET I == Search([i \in 1..Len(chunk_list) |-> Embed(chunk_list[i])],
                  Embed(query), top_k)
  IN [j \in 1..Len(I) |-> ListItem(chunk_list, I[j])]

\* an index: self.index of an instance, or the content of an index file
NoIndex == [present |-> FALSE, complete |-> FALSE, vecs |-> <<>>]
IndexOf(vecs) == [present |-> TRUE, complete |-> TRUE, vecs |-> vecs]
\* an index file opened for writing and not yet written out
PartialFile == [present |-> TRUE, complete |-> FALSE, vecs |-> <<>>]

\* ------------------------------------------------------------------ state
VARIABLES
  sp_text,      \* splitter: the text argument
  sp_size,      \* splitter: chunk_size
  sp_overlap,   \* splitter: chunk_overlap
  sp_pc,        \* splitter: "call" before the call, "done" after
  sp_out,       \* splitter: the call's outcome [raised, chunks]
  chunks,       \* the committed rows of the chunks table
  index_file,   \* property -> content of rag_indexes/<property>.index
  self_index,   \* instance -> self.index
  instances,    \* the RAGIndex objects that have been constructed
  write_lock,   \* the caller whose transaction holds the database write lock
  nbuilds,      \* builds started so far
  pc,           \* caller -> where its call stands
  frame,        \* caller -> the arguments and locals of its call
  api,          \* one POST /api/answer: its inputs, position and response
  load,         \* one load_chunks_and_index call: inputs, position, outcome
  datasources   \* datasource id -> the row's columns that an UPDATE may set

vars == <<sp_text, sp_size, sp_overlap, sp_pc, sp_out,
          chunks, index_file, self_index, instances, write_lock, nbuilds, pc, frame,
          api, load, datasources>>

splitVars == <<sp_text, sp_size, sp_overlap, sp_pc, sp_out>>
ragVars == <<chunks, index_file, self_index, instances, write_lock, nbuilds, pc,
             frame>>
appVars == <<api, load, datasources>>

\* the locals of a call that has not started; pre is what the property's
\* rows, index file and the instance's self.index were when a build began
NoFrame ==
  [op |-> "none", inst |-> "r1", documents |-> <<>>, tx |-> {},
   all_chunks |-> <<>>, to_write |-> <<>>, query |-> <<>>, top_k |-> 0,
   faiss_indices |-> <<>>, base_rowid |-> 0, fetched |-> {}, result |-> <<>>,
   outcome |-> "none", loaded |-> FALSE, used |-> <<>>, db |-> "ok",
   pre |-> [rows |-> {}, file |-> NoIndex, index |-> NoIndex]]

Free(c) == pc[c] \in {"idle", "done"}

\* the frame of a build that has ended: the documents, the transaction and
\* the chunk list are gone with the call; what the build found when it began
\* is kept for a build that failed
Ended(f, outcome) ==
  [f EXCEPT !.outcome = outcome, !.documents = <<>>, !.tx = {},
            !.all_chunks = <<>>, !.to_write = <<>>,
            !.pre = IF outcome = "failed" THEN @ ELSE NoFrame.pre]

\* ------------------------------------------------------ RAGIndex.__init__
\* a new RAGIndex object takes the place of one no other caller is using:
\* self.index = None
Construct(c) ==
  \E r \in instances :
    /\ Free(c)
    /\ \A d \in Callers \ {c} : frame[d].op = "none" \/ frame[d].inst # r
    /\ self_index[r].present
    /\ self_index' = [self_index EXCEPT ![r] = NoIndex]
    /\ frame' = [frame EXCEPT ![c] = [NoFrame EXCEPT !.op = "init", !.inst = r]]
    /\ pc' = [pc EXCEPT ![c] = "done"]
    /\ UNCHANGED <<chunks, index_file, write_lock, nbuilds, instances, splitVars, appVars>>

\* ------------------------------------------ RAGIndex.build_and_save_index
\* the transaction is rolled back and the exception printed
Rollback(c) ==
  /\ write_lock' = "free"
  /\ pc' = [pc EXCEPT ![c] = "done"]
  /\ frame' = [frame EXCEPT ![c] = Ended(frame[c], "failed")]

\* connect and DELETE the property's rows inside a new transaction
BuildStart(c) ==
  \E r \in instances : \E docs \in DocumentLists(property_id[r]) :
    /\ Free(c)
    /\ nbuilds < MaxBuilds
    /\ write_lock = "free"
    /\ write_lock' = c
    /\ nbuilds' = nbuilds + 1
    /\ frame' = [frame EXCEPT ![c] =
         [NoFrame EXCEPT !.op = "build", !.inst = r, !.documents = docs,
            !.tx = DeleteChunks(chunks, property_id[r]),
            !.pre = [rows |-> TenantRows(chunks, property_id[r]),
                     file |-> index_file[property_id[r]],
                     index |-> self_index[r]]]]
    /\ pc' = [pc EXCEPT ![c] = "b_chunk"]
    /\ UNCHANGED <<chunks, index_file, self_index, instances, splitVars, appVars>>

\* the DELETE finds the database locked by another transaction and raises
BuildLocked(c) ==
  \E r \in instances :
    /\ Free(c)
    /\ nbuilds < MaxBuilds
    /\ write_lock # "free"
    /\ nbuilds' = nbuilds + 1
    /\ frame' = [frame EXCEPT ![c] =
         [NoFrame EXCEPT !.op = "build", !.inst = r, !.outcome = "failed",
            !.pre = [rows |-> TenantRows(chunks, property_id[r]),
                     file |-> index_file[property_id[r]],
                     index |-> self_index[r]]]]
    /\ pc' = [pc EXCEPT ![c] = "done"]
    /\ UNCHANGED <<chunks, index_file, self_index, write_lock, instances, splitVars, appVars>>

\* chunk the documents; with no chunks return (the with block commits the
\* DELETE), else INSERT the new rows
BuildChunk(c) ==
  /\ pc[c] = "b_chunk"
  /\ LET r == ChunkDocuments(frame[c].documents) IN
     IF r.raised
     THEN Rollback(c) /\ UNCHANGED chunks
     ELSE IF r.chunks = <<>>
     THEN /\ chunks' = frame[c].tx
          /\ write_lock' = "free"
          /\ pc' = [pc EXCEPT ![c] = "done"]
          /\ frame' = [frame EXCEPT ![c] = Ended(frame[c], "aborted")]
     ELSE /\ frame' = [frame EXCEPT ![c].all_chunks = r.chunks,
                                    ![c].tx = InsertChunks(frame[c].tx, r.chunks)]
          /\ pc' = [pc EXCEPT ![c] = "b_encode"]
          /\ UNCHANGED <<chunks, write_lock>>
  /\ UNCHANGED <<index_file, self_index, nbuilds, instances, splitVars, appVars>>

\* encode the chunks and put them in a new IndexFlatL2 kept in self.index
BuildEncode(c) ==
  /\ pc[c] = "b_encode"
  /\ self_index' = [self_index EXCEPT ![frame[c].inst] =
                      IndexOf(Embeddings(frame[c].all_chunks))]
  /\ pc' = [pc EXCEPT ![c] = "b_write"]
  /\ UNCHANGED <<chunks, index_file, write_lock, nbuilds, frame, instances, splitVars, appVars>>

\* self.model.encode raises
BuildEncodeFail(c) ==
  /\ pc[c] = "b_encode"
  /\ Rollback(c)
  /\ UNCHANGED <<chunks, index_file, self_index, nbuilds, instances, splitVars, appVars>>

\* faiss.write_index opens the index file, which empties it
BuildWriteOpen(c) ==
  /\ pc[c] = "b_write"
  /\ index_file' = [index_file EXCEPT ![property_id[frame[c].inst]] = PartialFile]
  /\ frame' = [frame EXCEPT ![c].to_write = self_index[frame[c].inst].vecs]
  /\ pc' = [pc EXCEPT ![c] = "b_writing"]
  /\ UNCHANGED <<chunks, self_index, write_lock, nbuilds, instances, splitVars, appVars>>

\* faiss.write_index has written the whole index
BuildWriteFinish(c) ==
  /\ pc[c] = "b_writing"
  /\ index_file' = [index_file EXCEPT ![property_id[frame[c].inst]] =
                      IndexOf(frame[c].to_write)]
  /\ pc' = [pc EXCEPT ![c] = "b_commit"]
  /\ UNCHANGED <<chunks, self_index, write_lock, nbuilds, frame, instances, splitVars, appVars>>

\* faiss.write_index raises, before opening the file or part way through
BuildWriteFail(c) ==
  /\ pc[c] \in {"b_write", "b_writing"}
  /\ Rollback(c)
  /\ UNCHANGED <<chunks, index_file, self_index, nbuilds, instances, splitVars, appVars>>

\* the with block ends and commits the transaction
BuildCommit(c) ==
  /\ pc[c] = "b_commit"
  /\ chunks' = frame[c].tx
  /\ write_lock' = "free"
  /\ pc' = [pc EXCEPT ![c] = "done"]
  /\ frame' = [frame EXCEPT ![c] = Ended(frame[c], "ok")]
  /\ UNCHANGED <<index_file, self_index, nbuilds, instances, splitVars, appVars>>

\* the commit raises
BuildCommitFail(c) ==
  /\ pc[c] = "b_commit"
  /\ Rollback(c)
  /\ UNCHANGED <<chunks, index_file, self_index, nbuilds, instances, splitVars, appVars>>

\* ------------------------------------- RAGIndex._load_index and retrieve
\* the missing index file reported as a result of the call
FileNotFoundCaught == "returned"

\* raise FileNotFoundError(...): the way a call without an index file ends
FileNotFound == "not_indexed"

\* the checks of _load_index: self.index is None, the file exists
RetrieveStart(c) ==
  \E r \in instances : \E q \in Queries : \E k \in 1..MaxTopK :
    /\ Free(c)
    /\ LET f == [NoFrame EXCEPT !.op = "retrieve", !.inst = r,
                                !.query = q, !.top_k = k]
       IN IF self_index[r].present
          THEN /\ frame' = [frame EXCEPT ![c] = f]
               /\ pc' = [pc EXCEPT ![c] = "r_search"]
          ELSE IF ~index_file[property_id[r]].present
          THEN /\ frame' = [frame EXCEPT ![c] = [f EXCEPT !.outcome = FileNotFound]]
               /\ pc' = [pc EXCEPT ![c] = "done"]
          ELSE /\ frame' = [frame EXCEPT ![c] = f]
               /\ pc' = [pc EXCEPT ![c] = "r_read"]
    /\ UNCHANGED <<chunks, index_file, self_index, write_lock, nbuilds, instances, splitVars, appVars>>

\* self.index = faiss.read_index(self.index_path); a file that is not written
\* out does not deserialize
RetrieveRead(c) ==
  /\ pc[c] = "r_read"
  /\ LET f == index_file[property_id[frame[c].inst]] IN
     IF f.complete
     THEN /\ self_index' = [self_index EXCEPT ![frame[c].inst] = f]
          /\ frame' = [frame EXCEPT ![c].loaded = TRUE]
          /\ pc' = [pc EXCEPT ![c] = "r_search"]
     ELSE /\ frame' = [frame EXCEPT ![c].outcome = "corrupt"]
          /\ pc' = [pc EXCEPT ![c] = "done"]
          /\ UNCHANGED self_index
  /\ UNCHANGED <<chunks, index_file, write_lock, nbuilds, instances, splitVars, appVars>>

\* encode the query and search self.index
RetrieveSearch(c) ==
  /\ pc[c] = "r_search"
  /\ frame' = [frame EXCEPT
       ![c].used = self_index[frame[c].inst].vecs,
       ![c].faiss_indices = Search(self_index[frame[c].inst].vecs,
                                   Embed(frame[c].query), frame[c].top_k)]
  /\ pc' = [pc EXCEPT ![c] = "r_min"]
  /\ UNCHANGED <<chunks, index_file, self_index, write_lock, nbuilds, instances, splitVars, appVars>>

\* self.model.encode raises
RetrieveEncodeFail(c) ==
  /\ pc[c] = "r_search"
  /\ frame' = [frame EXCEPT ![c].outcome = "embed_error"]
  /\ pc' = [pc EXCEPT ![c] = "done"]
  /\ UNCHANGED <<chunks, index_file, self_index, write_lock, nbuilds, instances, splitVars, appVars>>

\* SELECT MIN(rowid) over the property's rows; [] when there is none
RetrieveMin(c) ==
  /\ pc[c] = "r_min"
  /\ LET b == MinRowid(chunks, property_id[frame[c].inst]) IN
     IF b = 0
     THEN /\ frame' = [frame EXCEPT ![c].outcome = "returned", ![c].result = <<>>]
          /\ pc' = [pc EXCEPT ![c] = "done"]
     ELSE /\ frame' = [frame EXCEPT ![c].base_rowid = b]
          /\ pc' = [pc EXCEPT ![c] = "r_rows"]
  /\ UNCHANGED <<chunks, index_file, self_index, write_lock, nbuilds, instances, splitVars, appVars>>

\* get_db_connection returns None (sqlite3.connect raised): return []
RetrieveConnectFail(c) ==
  /\ pc[c] = "r_min"
  /\ frame' = [frame EXCEPT ![c].outcome = "returned", ![c].result = <<>>,
                            ![c].db = "no_connection"]
  /\ pc' = [pc EXCEPT ![c] = "done"]
  /\ UNCHANGED <<chunks, index_file, self_index, write_lock, nbuilds, instances, splitVars, appVars>>

\* one of the two SELECTs raises: the except clause prints it and returns []
RetrieveQueryFail(c) ==
  /\ pc[c] \in {"r_min", "r_rows"}
  /\ frame' = [frame EXCEPT ![c].outcome = "returned", ![c].result = <<>>,
                            ![c].db = "query_raised"]
  /\ pc' = [pc EXCEPT ![c] = "done"]
  /\ UNCHANGED <<chunks, index_file, self_index, write_lock, nbuilds, instances, splitVars, appVars>>

\* SELECT the rows base_rowid + idx and return their texts in search order
RetrieveRows(c) ==
  /\ pc[c] = "r_rows"
  /\ LET ids == DbChunkIds(frame[c].base_rowid, frame[c].faiss_indices)
         rows == FetchRows(chunks, ids)
     IN frame' = [frame EXCEPT ![c].fetched = rows,
                               ![c].result = OrderedChunks(rows, ids),
                               ![c].outcome = "returned"]
  /\ pc' = [pc EXCEPT ![c] = "done"]
  /\ UNCHANGED <<chunks, index_file, self_index, write_lock, nbuilds, instances, splitVars, appVars>>

\* ------------------------------------------------ chunks documents (JSON)
\* the items of a JSON array: strings, objects with or without a chunk_text
\* key, numbers
JsonItems ==
  {[type |-> "str", has_chunk_text |-> FALSE, text |-> "a"],
   [type |-> "str", has_chunk_text |-> FALSE, text |-> "b"],
   [type |-> "dict", has_chunk_text |-> TRUE, text |-> "a"],
   [type |-> "dict", has_chunk_text |-> FALSE, text |-> ""],
   [type |-> "int", has_chunk_text |-> FALSE, text |-> ""]}

\* what response.json() or json.load may give: an array, or an object
JsonDocs ==
  {[type |-> "list", items |-> i] : i \in SeqsUpTo(JsonItems, MaxItems)}
    \cup {[type |-> "dict", items |-> <<>>]}

\* isinstance(data, list) and all(isinstance(c, str) for c in data)
AllStrings(data) ==
  /\ data.type = "list"
  /\ \A i \in 1..Len(data.items) : data.items[i].type = "str"

ItemTexts(items) == [i \in 1..Len(items) |-> items[i].text]

\* ------------------------------------------------- api.py: POST /api/answer
\* isinstance(data, list) and data and isinstance(data[0], dict)
\* and 'chunk_text' in data[0]
LooksLikeExport(data) ==
  /\ data.type = "list"
  /\ data.items # <<>>
  /\ data.items[1].type = "dict"
  /\ data.items[1].has_chunk_text

NoException == [class |-> "none", status_code |-> 0]

\* the format check of get_answer: the chunks, or the exception raised.
\* `'chunk_text' in item` is a substring test on a str item and raises
\* TypeError on a number
ParseChunks(data) ==
  IF LooksLikeExport(data)
  THEN IF \E i \in 1..Len(data.items) : data.items[i].type = "int"
       THEN [raised |-> [class |-> "TypeError", status_code |-> 0],
             chunks |-> <<>>]
       ELSE [raised |-> NoException,
             chunks |-> ItemTexts(SelectSeq(data.items,
                          LAMBDA item : item.type = "dict" /\ item.has_chunk_text))]
  ELSE IF AllStrings(data)
  THEN [raised |-> NoException, chunks |-> ItemTexts(data.items)]
  ELSE [raised |-> [class |-> "HTTPException", status_code |-> 400],
        chunks |-> <<>>]

\* the except clauses of the on-the-fly workflow: RequestException becomes
\* HTTPException(400), every other Exception, HTTPException among them,
\* becomes HTTPException(500)
OnTheFlyExcept(exc) == IF exc.class = "RequestException" THEN 400 ELSE 500

\* GroqChatbot.__init__(self, rag_index)
GroqChatbotParameters == {"rag_index"}

\* GroqChatbot(rag_index=..., platform_api_key=..., enable_history=False)
GroqChatbotArguments == {"rag_index", "platform_api_key", "enable_history"}

ApiOff ==
  [pc |-> "off", db_up |-> TRUE, key_valid |-> TRUE, has_url |-> TRUE,
   fetch_ok |-> TRUE, data |-> [type |-> "dict", items |-> <<>>],
   chunks |-> <<>>, status |-> 0]

\* the request ends with an HTTP status
Respond(status) == api' = [api EXCEPT !.pc = "done", !.status = status]

\* conn = get_db_connection(); 503 without a connection
ApiConnect ==
  /\ api.pc = "start"
  /\ IF api.db_up THEN api' = [api EXCEPT !.pc = "auth"] ELSE Respond(503)
  /\ UNCHANGED <<splitVars, ragVars, load, datasources>>

\* the property of the API key, 401 without one; without a chunks_url the
\* handler runs off its end and returns None, no status of its own
ApiAuthenticate ==
  /\ api.pc = "auth"
  /\ IF ~api.key_valid THEN Respond(401)
     ELSE IF ~api.has_url THEN api' = [api EXCEPT !.pc = "done"]
     ELSE api' = [api EXCEPT !.pc = "fetch"]
  /\ UNCHANGED <<splitVars, ragVars, load, datasources>>

\* requests.get, raise_for_status, response.json()
ApiFetch ==
  /\ api.pc = "fetch"
  /\ IF api.fetch_ok THEN api' = [api EXCEPT !.pc = "parse"]
     ELSE Respond(OnTheFlyExcept([class |-> "RequestException", status_code |-> 0]))
  /\ UNCHANGED <<splitVars, ragVars, load, datasources>>

\* the format check, inside the try block
ApiParse ==
  /\ api.pc = "parse"
  /\ LET r == ParseChunks(api.data) IN
     IF r.raised # NoException THEN Respond(OnTheFlyExcept(r.raised))
     ELSE api' = [api EXCEPT !.pc = "answer", !.chunks = r.chunks]
  /\ UNCHANGED <<splitVars, ragVars, load, datasources>>

\* InMemoryRAG(chunks, embedding_model) raises ValueError for no chunks;
\* GroqChatbot(...) raises TypeError for a keyword it does not take; else the
\* reply is returned
ApiAnswer ==
  /\ api.pc = "answer"
  /\ IF api.chunks = <<>>
     THEN Respond(OnTheFlyExcept([class |-> "ValueError", status_code |-> 0]))
     ELSE IF ~(GroqChatbotArguments \subseteq GroqChatbotParameters)
     THEN Respond(OnTheFlyExcept([class |-> "TypeError", status_code |-> 0]))
     ELSE Respond(200)
  /\ UNCHANGED <<splitVars, ragVars, load, datasources>>

\* ------------------------------------- manage.py: load_chunks_and_index
Websites ==
  {"https://a.com", "https://a.com/docs", "a.com", "https://b.com", "https://c.com"}

\* urlparse(website): scheme, netloc and path (a text without "//" is all path)
UrlParse(w) ==
  CASE w = "https://a.com" -> [scheme |-> "https", netloc |-> "a.com", path |-> ""]
    [] w = "https://a.com/docs" -> [scheme |-> "https", netloc |-> "a.com", path |-> "/docs"]
    [] w = "a.com" -> [scheme |-> "", netloc |-> "", path |-> "a.com"]
    [] w = "https://b.com" -> [scheme |-> "https", netloc |-> "b.com", path |-> ""]
    [] OTHER -> [scheme |-> "https", netloc |-> "c.com", path |-> ""]

\* scheme https when there is none, then path, params, query, fragment emptied
NormalizeWebsite(w) ==
  LET parsed_url == UrlParse(w)
      with_scheme == IF parsed_url.scheme = ""
                     THEN [parsed_url EXCEPT !.scheme = "https"] ELSE parsed_url
  IN [with_scheme EXCEPT !.path = ""]

\* properties.website of the two properties, as create_property stored them
properties_website ==
  (1 :> [scheme |-> "https", netloc |-> "a.com", path |-> ""])
    @@ (2 :> [scheme |-> "https", netloc |-> "b.com", path |-> ""])

\* SELECT id, name FROM properties WHERE website = ?: 0 stands for no row
SelectProperty(normalized_website) ==
  IF \E p \in Properties : properties_website[p] = normalized_website
  THEN CHOOSE p \in Properties : properties_website[p] = normalized_website
  ELSE 0

\* datasources.type: create_property gives each property a 'website' row
datasource_type == (1 :> "website") @@ (2 :> "website")

\* SELECT id FROM datasources WHERE property_id = ? AND type = 'website'
\* LIMIT 1: 0 stands for no row
SelectWebsiteDatasource(p) ==
  LET ds == {d \in DatasourcesOf(p) : datasource_type[d] = "website"}
  IN IF ds = {} THEN 0 ELSE SetMin(ds)

\* the columns of the datasources table
DatasourceColumns ==
  {"id", "property_id", "type", "source_uri", "status", "last_indexed_at",
   "created_at"}

\* UPDATE datasources SET status = ..., chunks_json_url = ?, index_updated_at = ?
UpdatedColumns == {"status", "chunks_json_url", "index_updated_at"}

\* the methods class RAGIndex defines
RAGIndexMethods == {"__init__", "build_and_save_index", "_load_index", "retrieve"}

\* the datasources rows as database_setup and create_property leave them
DatasourcesInit ==
  [d \in DOMAIN datasource_property |->
     [status |-> "pending", last_indexed_at |-> "NULL"]]

LoadOff ==
  [pc |-> "off", website |-> "https://a.com", source_is_url |-> FALSE,
   source_state |-> "ok", data |-> [type |-> "dict", items |-> <<>>],
   db_up |-> TRUE, property_id |-> 0, built |-> FALSE, outcome |-> "none"]

AppOff == api = ApiOff /\ load = LoadOff /\ datasources = DatasourcesInit

\* the call returns (or exits) having printed its outcome
LoadEnds(outcome) == load' = [load EXCEPT !.pc = "done", !.outcome = outcome]

\* step 1: the chunks from the URL or the local file
LoadSource ==
  /\ load.pc = "start"
  /\ IF ~load.source_is_url /\ load.source_state = "missing"
     THEN LoadEnds("file_not_found")
     ELSE IF load.source_state # "ok" THEN LoadEnds("load_error")
     ELSE load' = [load EXCEPT !.pc = "validate"]
  /\ UNCHANGED <<splitVars, ragVars, api, datasources>>

\* step 2: a JSON array of strings, or return
LoadValidate ==
  /\ load.pc = "validate"
  /\ IF AllStrings(load.data) THEN load' = [load EXCEPT !.pc = "find"]
     ELSE LoadEnds("invalid_format")
  /\ UNCHANGED <<splitVars, ragVars, api, datasources>>

\* get_db_connection (exit(1) without a connection) and the property of the
\* normalized website
LoadFindProperty ==
  /\ load.pc = "find"
  /\ IF ~load.db_up THEN LoadEnds("exit")
     ELSE LET p == SelectProperty(NormalizeWebsite(load.website)) IN
          IF p = 0 THEN LoadEnds("no_property")
          ELSE load' = [load EXCEPT !.pc = "index", !.property_id = p]
  /\ UNCHANGED <<splitVars, ragVars, api, datasources>>

\* steps 3 to 5: rag.build_index_from_chunks(chunks), then the UPDATE of the
\* website datasource inside `with conn`; an AttributeError for a method
\* RAGIndex does not define, or an OperationalError for a column the table
\* does not have, is caught by `except Exception` and printed
LoadIndexAndUpdate ==
  /\ load.pc = "index"
  /\ IF "build_index_from_chunks" \notin RAGIndexMethods
     THEN LoadEnds("error") /\ UNCHANGED datasources
     ELSE LET ds == SelectWebsiteDatasource(load.property_id) IN
          IF ds = 0
          THEN /\ load' = [load EXCEPT !.pc = "done", !.built = TRUE,
                                       !.outcome = "no_datasource"]
               /\ UNCHANGED datasources
          ELSE IF ~(UpdatedColumns \subseteq DatasourceColumns)
          THEN /\ load' = [load EXCEPT !.pc = "done", !.built = TRUE,
                                       !.outcome = "error"]
               /\ UNCHANGED datasources
          ELSE /\ load' = [load EXCEPT !.pc = "done", !.built = TRUE,
                                       !.outcome = "completed"]
               /\ datasources' = [datasources EXCEPT ![ds] =
                    [status |-> "completed", last_indexed_at |-> "NULL",
                     chunks_json_url |-> IF load.source_is_url THEN "chunks_source"
                                         ELSE "file://chunks_source",
                     index_updated_at |-> "now"]]
  /\ UNCHANGED <<splitVars, ragVars, api>>

\* --------------------------------------------------------- specifications
\* one RAGIndex object for each property
OnePerProperty == {"r1", "r3"}

InitRag ==
  /\ chunks = {}
  /\ index_file = [p \in Properties |-> NoIndex]
  /\ self_index = [r \in Instances |-> NoIndex]
  /\ write_lock = "free"
  /\ nbuilds = 0
  /\ pc = [c \in Callers |-> "idle"]
  /\ frame = [c \in Callers |-> NoFrame]

SplitterOff ==
  /\ sp_text = <<>>
  /\ sp_size = 1
  /\ sp_overlap = 0
  /\ sp_pc = "off"
  /\ sp_out = [raised |-> FALSE, chunks |-> <<>>]

\* one RAGIndex object per property
Init == InitRag /\ instances = OnePerProperty /\ SplitterOff /\ AppOff

\* two RAGIndex objects for property 1, one for property 2
InitAll == InitRag /\ instances = Instances /\ SplitterOff /\ AppOff

\* two RAGIndex objects of the same property
SameProperty == {"r1", "r2"}
InitSame == InitRag /\ instances = SameProperty /\ SplitterOff /\ AppOff

\* the steps of a call in which nothing fails
OkStep(c) ==
  \/ Construct(c)
  \/ BuildStart(c)
  \/ BuildChunk(c)
  \/ BuildEncode(c)
  \/ BuildWriteOpen(c)
  \/ BuildWriteFinish(c)
  \/ BuildCommit(c)
  \/ RetrieveStart(c)
  \/ RetrieveRead(c)
  \/ RetrieveSearch(c)
  \/ RetrieveMin(c)
  \/ RetrieveRows(c)

\* the steps in which the embedder, the index file or the commit fails
FaultStep(c) ==
  \/ BuildEncodeFail(c)
  \/ BuildWriteFail(c)
  \/ BuildCommitFail(c)
  \/ RetrieveEncodeFail(c)

\* the steps in which the database cannot be opened or a SELECT raises
DbFaultStep(c) ==
  \/ RetrieveConnectFail(c)
  \/ RetrieveQueryFail(c)

\* one caller, nothing fails
NextSeqOk == OkStep("c1")
SpecSeqOk == InitAll /\ [][NextSeqOk]_vars

\* one caller, calls may fail
Next == OkStep("c1") \/ FaultStep("c1")
Spec == Init /\ [][Next]_vars

\* one caller, the database may fail under a retrieve
NextDb == OkStep("c1") \/ DbFaultStep("c1")
SpecDb == Init /\ [][NextDb]_vars

\* concurrent callers, nothing fails but a build that finds the database locked
NextConc == \E c \in Callers : OkStep(c) \/ BuildLocked(c)
SpecConc == InitSame /\ [][NextConc]_vars

\* ---------------------------------------------- the splitter specification
InitSplit ==
  /\ InitRag
  /\ instances = OnePerProperty
  /\ sp_text \in SeqsUpTo(Alphabet, MaxLen)
  /\ sp_size \in 1..MaxChunk
  /\ sp_overlap \in 0..MaxOverlap
  /\ sp_pc = "call"
  /\ sp_out = [raised |-> FALSE, chunks |-> <<>>]
  /\ AppOff

SplitCall ==
  /\ sp_pc = "call"
  /\ sp_out' = recursive_character_splitter(sp_text, sp_size, sp_overlap,
                                            DefaultSeparators, 1)
  /\ sp_pc' = "done"
  /\ UNCHANGED <<sp_text, sp_size, sp_overlap, ragVars, appVars>>

NextSplit == SplitCall

SpecSplit == InitSplit /\ [][NextSplit]_vars

\* ------------------------------------------ the /api/answer specification
InitApi ==
  /\ InitRag /\ instances = OnePerProperty /\ SplitterOff
  /\ load = LoadOff
  /\ datasources = DatasourcesInit
  /\ api \in {[ApiOff EXCEPT !.pc = "start", !.db_up = d, !.key_valid = k,
                              !.has_url = u, !.fetch_ok = f, !.data = j] :
                 d \in BOOLEAN, k \in BOOLEAN, u \in BOOLEAN, f \in BOOLEAN,
                 j \in JsonDocs}

NextApi == ApiConnect \/ ApiAuthenticate \/ ApiFetch \/ ApiParse \/ ApiAnswer

SpecApi == InitApi /\ [][NextApi]_vars

\* ------------------------------- the load_chunks_and_index specification
InitLoad ==
  /\ InitRag /\ instances = OnePerProperty /\ SplitterOff
  /\ api = ApiOff
  /\ datasources = DatasourcesInit
  /\ load \in {[LoadOff EXCEPT !.pc = "start", !.website = w, !.source_is_url = u,
                               !.source_state = st, !.data = j, !.db_up = d] :
                  w \in Websites, u \in BOOLEAN,
                  st \in {"missing", "unreadable", "ok"}, j \in JsonDocs,
                  d \in BOOLEAN}

NextLoad == LoadSource \/ LoadValidate \/ LoadFindProperty \/ LoadIndexAndUpdate

SpecLoad == InitLoad /\ [][NextLoad]_vars

\* ------------------------------------------------- claims on the RAGIndex
\* a set of rows as a sequence by rising id
RECURSIVE RowsById(_)
RowsById(rows) ==
  IF rows = {} THEN <<>>
  ELSE LET m == CHOOSE x \in rows : \A y \in rows : x.id <= y.id
       IN <<m>> \o RowsById(rows \ {m})

\* the embeddings of a property's rows, in row order
RowEmbeddings(table, p) ==
  LET rs == RowsById(TenantRows(table, p))
  IN [i \in 1..Len(rs) |-> Embed(rs[i].chunk_text)]

\* the property of the instance caller c works on
PropertyOf(c) == property_id[frame[c].inst]

RetrieveReturned(c) ==
  pc[c] = "done" /\ frame[c].op = "retrieve" /\ frame[c].outcome = "returned"

\* the property's rows, its index file and the index the retrieve searched
\* are those of one build of n >= 1 chunks
BuiltState(c) ==
  /\ TenantRows(chunks, PropertyOf(c)) # {}
  /\ index_file[PropertyOf(c)] = IndexOf(frame[c].used)
  /\ frame[c].used = RowEmbeddings(chunks, PropertyOf(c))

\* the texts stored for the ordinals the search returned
TextsOfOrdinals(c) ==
  LET rs == RowsById(TenantRows(chunks, PropertyOf(c)))
  IN [i \in 1..Len(frame[c].faiss_indices) |->
        rs[frame[c].faiss_indices[i] + 1].chunk_text]

\* C1: after a successful build that stored n >= 1 chunks, retrieve with
\* 1 <= top_k <= n returns exactly top_k texts, those stored for the ordinals
\* the vector search returned, and not the empty list.
C1_RetrieveReturnsTopK ==
  \A c \in Callers :
    (/\ RetrieveReturned(c)
     /\ BuiltState(c)
     /\ frame[c].top_k <= Cardinality(TenantRows(chunks, PropertyOf(c))))
      => /\ Len(frame[c].result) = frame[c].top_k
         /\ frame[c].result = TextsOfOrdinals(c)

\* C2: every text retrieve returns for a property is the chunk_text of a row
\* it fetched whose datasource belongs to that property; no row of another
\* property is returned.
C2_NoCrossTenant ==
  \A c \in Callers :
    frame[c].op = "retrieve" =>
      \A i \in 1..Len(frame[c].result) :
        \E row \in frame[c].fetched :
          /\ row.chunk_text = frame[c].result[i]
          /\ datasource_property[row.datasource_id] = PropertyOf(c)

\* a retrieve returned after its SELECT matched a row of another property
\* (top_k exceeded the vectors of the index it searched, or that index held
\* more vectors than the property has rows)
C2_Witness ==
  \E c \in Callers :
    /\ RetrieveReturned(c)
    /\ \E row \in frame[c].fetched :
         datasource_property[row.datasource_id] # PropertyOf(c)
    /\ \/ frame[c].top_k > Len(frame[c].used)
       \/ Len(frame[c].used) > Cardinality(TenantRows(chunks, PropertyOf(c)))

\* C3: a build that fails leaves the property's chunk rows, its index file
\* and the instance's self.index as they were before the build.
C3_BuildAllOrNothing ==
  \A c \in Callers :
    (pc[c] = "done" /\ frame[c].op = "build" /\ frame[c].outcome = "failed")
      => /\ TenantRows(chunks, PropertyOf(c)) = frame[c].pre.rows
         /\ index_file[PropertyOf(c)] = frame[c].pre.file
         /\ self_index[frame[c].inst] = frame[c].pre.index

\* C4: a retrieve that runs beside a rebuild never reads a partially written
\* index file, and the index it loaded and the rows it reads are those of one
\* build.
C4_RetrieveSeesOneBuild ==
  [][\A c \in Callers :
       /\ frame'[c].outcome # "corrupt"
       /\ (pc[c] = "r_rows" /\ pc'[c] = "done" /\ frame[c].loaded)
            => frame[c].used = RowEmbeddings(chunks, PropertyOf(c))]_vars

\* C5: a retrieve started after a rebuild searches the rebuilt index, the one
\* in the property's index file, never one loaded before the rebuild.
C5_NoStaleIndex ==
  \A c \in Callers :
    RetrieveReturned(c) => frame[c].used = index_file[PropertyOf(c)].vecs

\* C6: the index file of an instance whose index is not yet loaded is
\* deserialized once: two callers are never both reading it.
C6_SingleDeserialization ==
  \A r \in Instances :
    Cardinality({c \in Callers : pc[c] = "r_read" /\ frame[c].inst = r}) <= 1

\* caller c begins a retrieve in this step
StartsRetrieve(c) ==
  /\ Free(c)
  /\ frame'[c].op = "retrieve"
  /\ <<pc'[c], frame'[c]>> # <<pc[c], frame[c]>>

\* property p was never built, or built only from documents that gave no
\* chunks: it has no index file and none of its RAGIndex objects holds an index
NotBuilt(p) ==
  /\ ~index_file[p].present
  /\ \A r \in instances : property_id[r] = p => ~self_index[r].present

\* C13: a retrieve on a property that has no index file (never built, or
\* built only from documents that gave no chunks) ends in the not-indexed
\* error and returns no list, and a retrieve whose index file does not
\* deserialize ends in that error; neither becomes an empty result.
C13_LoadErrorsSurface ==
  [][\A c \in Callers :
       /\ (StartsRetrieve(c) /\ NotBuilt(property_id[frame'[c].inst]))
            => /\ pc'[c] = "done"
               /\ frame'[c].outcome = "not_indexed"
               /\ frame'[c].result = <<>>
       /\ (/\ pc[c] = "r_read" /\ pc'[c] # "r_read"
           /\ ~index_file[PropertyOf(c)].complete)
            => /\ pc'[c] = "done"
               /\ frame'[c].outcome = "corrupt"
               /\ frame'[c].result = <<>>]_vars

\* a retrieve ended in the not-indexed error on a property whose only build
\* so far gave no chunks
C13_Witness ==
  \E c \in Callers :
    /\ pc[c] = "done" /\ frame[c].op = "retrieve"
    /\ frame[c].outcome = "not_indexed"
    /\ nbuilds > 0
    /\ NotBuilt(PropertyOf(c))

\* the retrieve of caller c has searched its index
Searched(c) ==
  /\ frame[c].op = "retrieve"
  /\ pc[c] \in {"r_min", "r_rows"} \/ frame[c].outcome = "returned"

SmallerOf(a, b) == IF a <= b THEN a ELSE b

\* the texts of a property's rows in row order
TenantTexts(p) ==
  LET rs == RowsById(TenantRows(chunks, p))
  IN [i \in 1..Len(rs) |-> rs[i].chunk_text]

\* C14: a search with top_k = k over an index of n vectors yields exactly
\* min(k, n) results, each a distinct ordinal of 0..n-1: RAGIndex.retrieve
\* looks up no ordinal outside 0..n-1, and InMemoryRAG.retrieve over n chunks
\* returns min(k, n) texts, none for a padding entry.
C14_MinKNResults ==
  \A c \in Callers :
    Searched(c) =>
      LET n == Len(frame[c].used)
          I == frame[c].faiss_indices
          texts == TenantTexts(PropertyOf(c))
      IN /\ Len(I) = SmallerOf(frame[c].top_k, n)
         /\ \A i \in 1..Len(I) : I[i] \in 0..(n - 1)
         /\ \A i, j \in 1..Len(I) : i # j => I[i] # I[j]
         /\ texts # <<>> =>
              Len(InMemoryRAG_retrieve(texts, frame[c].query, frame[c].top_k))
                = SmallerOf(frame[c].top_k, Len(texts))

\* the call of caller c raised to its caller
RaisedToCaller(f) == f.outcome \in {"not_indexed", "corrupt", "embed_error"}

\* C15: an error raised by model.encode reaches the caller as an error, from
\* retrieve and from build_and_save_index alike; the call does not return
\* normally.
C15_EmbedderErrorPropagates ==
  [][\A c \in Callers :
       /\ (pc[c] = "b_encode" /\ pc'[c] = "done") => RaisedToCaller(frame'[c])
       /\ (pc[c] = "r_search" /\ pc'[c] = "done") => RaisedToCaller(frame'[c])]_vars

\* C16: when the database cannot be opened or a query on it raises, retrieve
\* ends in a chunks-unavailable error; it returns the empty list only when
\* the database was reached and no ordinal resolved.
C16_BackendErrorSurfaces ==
  \A c \in Callers :
    (pc[c] = "done" /\ frame[c].op = "retrieve")
      => /\ frame[c].db # "ok" => frame[c].outcome = "chunks_unavailable"
         /\ (frame[c].outcome = "returned" /\ frame[c].result = <<>>)
              => frame[c].db = "ok"

\* the texts of the property's rows at base_rowid + ordinal, one for each
\* ordinal of the search result that has such a row, in search order
RankedTexts(c) ==
  LET ids == DbChunkIds(frame[c].base_rowid, frame[c].faiss_indices)
      own == TenantRows(frame[c].fetched, PropertyOf(c))
      found == SelectSeq(ids, LAMBDA id : \E row \in own : row.id = id)
  IN [i \in 1..Len(found) |-> (CHOOSE row \in own : row.id = found[i]).chunk_text]

\* C17: the list retrieve returns is in search-rank order: the texts of the
\* ordinals that resolve to a row, in the order the search gave them; an
\* ordinal without a row is left out, and the list is empty only when no
\* ordinal resolves.
C17_RankOrder ==
  \A c \in Callers :
    (RetrieveReturned(c) /\ frame[c].db = "ok")
      => frame[c].result = RankedTexts(c)

\* no call is in progress
AllFree == \A c \in Callers : Free(c)

\* the rows of property p have consecutive ids from the smallest on, and the
\* property's index file holds one vector per row, vector i embedding the
\* text of row base + i
TenantConsistent(p) ==
  LET rs == RowsById(TenantRows(chunks, p)) IN
  rs # <<>> =>
    /\ \A i \in 1..Len(rs) : rs[i].id = MinRowid(chunks, p) + i - 1
    /\ index_file[p] = IndexOf([i \in 1..Len(rs) |-> Embed(rs[i].chunk_text)])

\* the rows of property p, by rising id, as (datasource_id, chunk_text) pairs
TenantPairs(table, p) ==
  LET rs == RowsById(TenantRows(table, p))
  IN [i \in 1..Len(rs) |-> <<rs[i].datasource_id, rs[i].chunk_text>>]

\* C18: after any sequence of successful builds that do not overlap, over
\* several properties (looked at each time a build ends), each property whose last build stored n >= 1 chunks
\* has exactly those n chunks as its rows, none of an earlier build, at
\* consecutive row ids base..base+n-1 in the order of the flattened document
\* sequence, and its index file holds exactly n vectors, vector i embedding
\* the chunk of row base + i.
C18_RowsMatchIndex ==
  [][\A c \in Callers :
       (pc[c] \in {"b_chunk", "b_commit"} /\ pc'[c] = "done")
         => /\ frame'[c].outcome = "ok"
                 => TenantPairs(chunks', PropertyOf(c))
                      = ChunkDocuments(frame[c].documents).chunks
            /\ AllFree' => \A p \in Properties : TenantConsistent(p)']_vars

\* two builds have ended, the last one well, and a property holds two or
\* more rows that start above row id 1, behind the rows of another property
C18_Witness ==
  /\ AllFree
  /\ nbuilds = MaxBuilds
  /\ \E c \in Callers : frame[c].op = "build" /\ frame[c].outcome = "ok"
  /\ \E p \in Properties :
       /\ Cardinality(TenantRows(chunks, p)) >= 2
       /\ MinRowid(chunks, p) > 1

\* C19: a build whose documents give no chunks aborts without effect: the
\* property's rows and its index file are after the call what they were
\* before it, so the number of rows still equals the number of vectors in the
\* index file.
C19_EmptyBuildNoEffect ==
  [][\A c \in Callers :
       (pc[c] = "b_chunk" /\ frame'[c].outcome = "aborted")
         => /\ TenantRows(chunks', PropertyOf(c)) = frame[c].pre.rows
            /\ index_file'[PropertyOf(c)] = frame[c].pre.file
            /\ Cardinality(TenantRows(chunks', PropertyOf(c)))
                 = Len(index_file'[PropertyOf(c)].vecs)]_vars

\* ------------------------------------------------- claims on the splitter
SplitDone == sp_pc = "done"

\* the splitter's stated precondition
SplitPre == sp_text # <<>> /\ sp_size > 0 /\ sp_overlap >= 0 /\ sp_overlap < sp_size

RECURSIVE Concat(_)
Concat(cs) ==
  IF cs = <<>> THEN <<>> ELSE Head(cs) \o Concat(Tail(cs))

\* chunk i without the prefix the overlap pass put before it
RECURSIVE WithoutOverlap(_, _, _)
WithoutOverlap(cs, chunk_overlap, prevLen) ==
  IF cs = <<>> THEN <<>>
  ELSE LET n == IF chunk_overlap < prevLen THEN chunk_overlap ELSE prevLen
           c == Head(cs)
           own == IF n >= Len(c) THEN <<>> ELSE SubSeq(c, n + 1, Len(c))
       IN <<own>> \o WithoutOverlap(Tail(cs), chunk_overlap, Len(own))

\* s is t with some characters left out
RECURSIVE IsSubsequence(_, _)
IsSubsequence(s, t) ==
  IF s = <<>> THEN TRUE
  ELSE IF t = <<>> THEN FALSE
  ELSE IF Head(s) = Head(t) THEN IsSubsequence(Tail(s), Tail(t))
  ELSE IsSubsequence(s, Tail(t))

\* the characters of s that belong to no separator
Letters(s) == SelectSeq(s, LAMBDA ch : ch \in {"a", "b"})

\* C7: recursive_character_splitter terminates for every text and every
\* chunk_size > 0: a call never ends in unbounded recursion.
C7_Terminates == SplitDone => ~sp_out.raised

\* C8: for a non-empty text, chunk_size > 0 and 0 <= overlap < chunk_size, a
\* call that returns gives a non-empty list of chunks.
C8_NonEmpty == (SplitDone /\ SplitPre /\ ~sp_out.raised) => sp_out.chunks # <<>>

\* C9: for a non-empty text, chunk_size > 0 and 0 <= overlap < chunk_size, the
\* returned chunks with their overlap prefixes removed concatenate to the
\* original text.
C9_Reconstructs ==
  (SplitDone /\ SplitPre /\ ~sp_out.raised)
    => Concat(WithoutOverlap(sp_out.chunks, sp_overlap, 0)) = sp_text

\* C10: with overlap = 0 every part of the text lands in exactly one returned
\* chunk, in source order, and a closed chunk is never emitted again: the
\* chunks, read in order, use each character of the text at most once and
\* every letter of the text exactly once.
C10_PackedOnce ==
  (SplitDone /\ ~sp_out.raised /\ sp_overlap = 0)
    => /\ IsSubsequence(Concat(sp_out.chunks), sp_text)
       /\ Letters(Concat(sp_out.chunks)) = Letters(sp_text)

\* the chunks the packing produces, before any overlap is applied
PackedChunks ==
  recursive_character_splitter(sp_text, sp_size, 0, DefaultSeparators, 1).chunks

\* the first chunk as it is, every later chunk behind the last `overlap`
\* characters of the chunk before it
OverlappedOnce(cs, overlap) ==
  [i \in 1..Len(cs) |->
     IF i = 1 THEN cs[1] ELSE LastChars(cs[i - 1], overlap) \o cs[i]]

\* C11: with overlap > 0 the result is the packed chunk list with the overlap
\* applied exactly once to each chunk: r[0] = c[0] and r[i] = the last
\* `overlap` characters of c[i-1] followed by c[i], also for the chunks that
\* came from a recursive split of an oversized part.
C11_OverlapOnce ==
  (SplitDone /\ ~sp_out.raised /\ sp_overlap > 0)
    => sp_out.chunks = OverlappedOnce(PackedChunks, sp_overlap)

\* separator lists other than the default one
SeparatorLists ==
  {DefaultSeparators, <<>>, << <<>> >>, << <<" ">> >>, << <<"a">>, <<"\n">> >>}

\* C12: the empty string splits into the empty list, for every chunk_size,
\* every chunk_overlap and every separator list.
C12_EmptyText ==
  (SplitDone /\ sp_text = <<>>)
    => /\ sp_out = [raised |-> FALSE, chunks |-> <<>>]
       /\ \A seps \in SeparatorLists :
            recursive_character_splitter(sp_text, sp_size, sp_overlap, seps, 1)
              = [raised |-> FALSE, chunks |-> <<>>]

\* the splitter has returned from a call on the empty string made with an
\* overlap and a chunk_size that are not the smallest
C12_Witness ==
  SplitDone /\ sp_text = <<>> /\ sp_overlap > 0 /\ sp_size > 1

\* C20: for chunk_size > 0 and 0 <= chunk_overlap < chunk_size, every chunk of
\* a call that returns is at most chunk_size + chunk_overlap long, also a
\* chunk that came from a recursive split of an oversized part.
C20_ChunkLength ==
  (SplitDone /\ SplitPre /\ ~sp_out.raised)
    => \A i \in 1..Len(sp_out.chunks) :
         Len(sp_out.chunks[i]) <= sp_size + sp_overlap

\* ------------------------------------------ claims on the two entry points
\* a JSON array of strings, or an array of objects that each carry chunk_text
ValidChunksDocument(data) ==
  /\ data.type = "list"
  /\ \/ \A i \in 1..Len(data.items) : data.items[i].type = "str"
     \/ \A i \in 1..Len(data.items) :
          data.items[i].type = "dict" /\ data.items[i].has_chunk_text

\* the request got as far as the format check of the fetched document
FormatChecked ==
  /\ api.pc = "done"
  /\ api.db_up /\ api.key_valid /\ api.has_url /\ api.fetch_ok

\* C21: in the on-the-fly workflow, a fetched chunks_url document that is
\* neither an array of strings nor an array of objects carrying chunk_text is
\* answered with HTTP status 400, not 500.
C21_InvalidFormatIs400 ==
  (FormatChecked /\ ~ValidChunksDocument(api.data)) => api.status = 400

\* the website is that of an existing property with a 'website' datasource
WebsiteOfProperty(w) ==
  \E p \in Properties :
    /\ UrlParse(w) = properties_website[p]
    /\ \E d \in DatasourcesOf(p) : datasource_type[d] = "website"

\* the website datasource of the property whose website is w
WebsiteDatasource(w) ==
  CHOOSE d \in DOMAIN datasource_property :
    /\ UrlParse(w) = properties_website[datasource_property[d]]
    /\ datasource_type[d] = "website"

\* C22: load_chunks_and_index, given a source that loads as a JSON array of
\* strings and the website of an existing property that has a 'website'
\* datasource, builds the index of that property and then sets that
\* datasource to status 'completed' with the chunks URL recorded; the update
\* is made only after the build has succeeded.
C22_LoadBuildsThenUpdates ==
  /\ (/\ load.pc = "done"
      /\ load.source_state = "ok"
      /\ load.db_up
      /\ load.data.type = "list"
      /\ \A i \in 1..Len(load.data.items) : load.data.items[i].type = "str"
      /\ WebsiteOfProperty(load.website))
       => /\ load.built
          /\ datasources[WebsiteDatasource(load.website)].status = "completed"
          /\ "chunks_json_url" \in DOMAIN datasources[WebsiteDatasource(load.website)]
  /\ \A d \in DOMAIN datasources :
       datasources[d].status = "completed" => load.built

====
